---- MODULE Spec2Model ----
(***************************************************************************)
(* Model of backend.py: the amount parser extract_amount and the two       *)
(* payment handlers create_order and verify_payment, together with the     *)
(* payment provider they call (orders created, payments captured).         *)
(*                                                                         *)
(* Text is a sequence of one-character strings.  Money: a request amount   *)
(* in rupees is carried in hundredths (250 is 2.50 rupees), provider       *)
(* amounts are paise.                                                      *)
(***************************************************************************)
EXTENDS Integers, Sequences, FiniteSets, TLC

VARIABLES text, result, ppc, orders, payments, thread, log

vars == <<text, result, ppc, orders, payments, thread, log>>

parserVars == <<text, result, ppc>>
serverVars == <<orders, payments, thread, log>>

-----------------------------------------------------------------------------
(* Bounds *)

MaxWords == 3
MaxCreates == 1
MaxVerifies == 2

-----------------------------------------------------------------------------
(* Characters: the classes the regular expressions \d, \w, \s use, and     *)
(* str.lower                                                               *)

DigitChars == <<"0","1","2","3","4","5","6","7","8","9">>
UpperChars == <<"A","B","C","D","E","F","G","H","I","J","K","L","M",
                "N","O","P","Q","R","S","T","U","V","W","X","Y","Z">>
LowerChars == <<"a","b","c","d","e","f","g","h","i","j","k","l","m",
                "n","o","p","q","r","s","t","u","v","w","x","y","z">>

Range(s) == {s[i] : i \in DOMAIN s}

DigitSet == Range(DigitChars)
UpperSet == Range(UpperChars)
SpaceSet == {" ", "\t", "\n"}
WordCharSet == DigitSet \cup UpperSet \cup Range(LowerChars) \cup {"_"}

IsDigit(c) == c \in DigitSet

IsSpace(c) == c \in SpaceSet

IsWordChar(c) == c \in WordCharSet

DigitVal(c) == (CHOOSE i \in DOMAIN DigitChars : DigitChars[i] = c) - 1

LowerChar(c) ==
    IF c \in UpperSet
    THEN LowerChars[CHOOSE i \in DOMAIN UpperChars : UpperChars[i] = c]
    ELSE c

lower(s) == [i \in DOMAIN s |-> LowerChar(s[i])]

-----------------------------------------------------------------------------
(* extract_amount *)

NoneResult == [none |-> TRUE, int |-> 0]
IntResult(n) == [none |-> FALSE, int |-> n]

RECURSIVE int(_)
int(s) ==
    IF s = <<>> THEN 0
    ELSE 10 * int(SubSeq(s, 1, Len(s) - 1)) + DigitVal(s[Len(s)])

\* re.findall(r'\d+', text): the maximal digit runs, left to right
RECURSIVE findall_digits(_, _, _)
findall_digits(s, i, run) ==
    IF i > Len(s)
    THEN IF run = <<>> THEN <<>> ELSE <<run>>
    ELSE IF IsDigit(s[i])
         THEN findall_digits(s, i + 1, Append(run, s[i]))
         ELSE IF run = <<>>
              THEN findall_digits(s, i + 1, <<>>)
              ELSE <<run>> \o findall_digits(s, i + 1, <<>>)

\* str.split(): maximal runs of non-whitespace characters
RECURSIVE split(_, _, _)
split(s, i, word) ==
    IF i > Len(s)
    THEN IF word = <<>> THEN <<>> ELSE <<word>>
    ELSE IF ~IsSpace(s[i])
         THEN split(s, i + 1, Append(word, s[i]))
         ELSE IF word = <<>>
              THEN split(s, i + 1, <<>>)
              ELSE <<word>> \o split(s, i + 1, <<>>)

\* re.sub(r'[^\w\s]', '', word)
strip_punctuation(word) ==
    SelectSeq(word, LAMBDA c : IsWordChar(c) \/ IsSpace(c))

words_to_numbers ==
    {
       <<<<"z","e","r","o">>, 0>>,
       <<<<"o","n","e">>, 1>>,
       <<<<"t","w","o">>, 2>>,
       <<<<"t","h","r","e","e">>, 3>>,
       <<<<"f","o","u","r">>, 4>>,
       <<<<"f","i","v","e">>, 5>>,
       <<<<"s","i","x">>, 6>>,
       <<<<"s","e","v","e","n">>, 7>>,
       <<<<"e","i","g","h","t">>, 8>>,
       <<<<"n","i","n","e">>, 9>>,
       <<<<"t","e","n">>, 10>>,
       <<<<"e","l","e","v","e","n">>, 11>>,
       <<<<"t","w","e","l","v","e">>, 12>>,
       <<<<"t","h","i","r","t","e","e","n">>, 13>>,
       <<<<"f","o","u","r","t","e","e","n">>, 14>>,
       <<<<"f","i","f","t","e","e","n">>, 15>>,
       <<<<"s","i","x","t","e","e","n">>, 16>>,
       <<<<"s","e","v","e","n","t","e","e","n">>, 17>>,
       <<<<"e","i","g","h","t","e","e","n">>, 18>>,
       <<<<"n","i","n","e","t","e","e","n">>, 19>>,
       <<<<"t","w","e","n","t","y">>, 20>>,
       <<<<"t","h","i","r","t","y">>, 30>>,
       <<<<"f","o","r","t","y">>, 40>>,
       <<<<"f","i","f","t","y">>, 50>>,
       <<<<"s","i","x","t","y">>, 60>>,
       <<<<"s","e","v","e","n","t","y">>, 70>>,
       <<<<"e","i","g","h","t","y">>, 80>>,
       <<<<"n","i","n","e","t","y">>, 90>>,
       <<<<"h","u","n","d","r","e","d">>, 100>>,
       <<<<"t","h","o","u","s","a","n","d">>, 1000>>
    }

InLexicon(word) == \E e \in words_to_numbers : e[1] = word

NumberOf(word) == (CHOOSE e \in words_to_numbers : e[1] = word)[2]

\* a variant in which "hundred" multiplies an empty current as well
word_step_bare_hundred(acc, rawword) ==
    LET word == strip_punctuation(rawword)
        total == acc[1]
        current == acc[2]
    IN  IF InLexicon(word)
        THEN LET num == NumberOf(word)
             IN  IF num = 100
                 THEN <<total, current * 100>>
                 ELSE IF num = 1000
                      THEN <<total + (IF current # 0 THEN current ELSE 1) * 1000, 0>>
                      ELSE <<total, current + num>>
        ELSE acc

\* one iteration of the loop over words; acc is <<total, current>>
word_step(acc, rawword) ==
    LET word == strip_punctuation(rawword)
        total == acc[1]
        current == acc[2]
    IN  IF InLexicon(word)
        THEN LET num == NumberOf(word)
             IN  IF num = 100
                 THEN <<total, IF current # 0 THEN current * 100 ELSE 100>>
                 ELSE IF num = 1000
                      THEN <<total + (IF current # 0 THEN current ELSE 1) * 1000, 0>>
                      ELSE <<total, current + num>>
        ELSE acc

RECURSIVE word_loop(_, _)
word_loop(acc, words) ==
    IF words = <<>> THEN acc
    ELSE word_loop(word_step(acc, Head(words)), Tail(words))

\* a variant that takes the last run of digits
digit_result_last(digits) == IntResult(int(digits[Len(digits)]))

digit_result(digits) == IntResult(int(digits[1]))

word_result(total) == IF total > 0 THEN IntResult(total) ELSE NoneResult

extract_amount(t) ==
    LET digits == findall_digits(t, 1, <<>>)
    IN  IF digits # <<>>
        THEN digit_result(digits)
        ELSE LET acc == word_loop(<<0, 0>>, split(lower(t), 1, <<>>))
             IN  word_result(acc[1] + acc[2])

-----------------------------------------------------------------------------
(* Transcripts the parser is applied to: up to MaxWords words separated by *)
(* single spaces; the empty word gives leading, trailing and double spaces *)

TokenSet ==
    { <<"t","w","o">>,
      <<"F","i","v","e">>,
      <<"h","u","n","d","r","e","d",",">>,
      <<"t","h","o","u","s","a","n","d">>,
      <<"f","i","f","t","y">>,
      <<"t","w","e","n","t","y">>,
      <<"o","n","e">>,
      <<"z","e","r","o">>,
      <<"h","e","l","l","o">>,
      <<"2","5","0">>,
      <<"0","0","0">>,
      <<"t","w","o","_">>,
      <<"t","w","e","n","t","y","-","o","n","e">>,
      <<"a","5","b","1","2">>,
      <<>> }

RECURSIVE Join(_)
Join(ws) ==
    IF ws = <<>> THEN <<>>
    ELSE IF Len(ws) = 1 THEN ws[1]
         ELSE ws[1] \o <<" ">> \o Join(Tail(ws))

Texts == {Join(ws) : ws \in UNION {[1..n -> TokenSet] : n \in 0..MaxWords}}

InitParse ==
    /\ text \in Texts
    /\ result = NoneResult
    /\ ppc = "start"
    /\ orders = <<>>
    /\ payments = <<>>
    /\ thread = <<>>
    /\ log = <<>>

\* transcribe_audio: amount = extract_amount(transcribed_text)
ExtractAmount ==
    /\ ppc = "start"
    /\ result' = extract_amount(text)
    /\ ppc' = "done"
    /\ UNCHANGED <<text, serverVars>>

NextParse == ExtractAmount

SpecParse == InitParse /\ [][NextParse]_vars

-----------------------------------------------------------------------------
(* Requests and responses of create_order and verify_payment *)

Threads == {1, 2}

\* JSON values of data.get('amount'): absent, a string, or a number
AmountNone == [t |-> "none", c |-> 0, s |-> ""]
AmountStr(str) == [t |-> "str", c |-> 0, s |-> str]
AmountNum(hundredths) == [t |-> "num", c |-> hundredths, s |-> ""]

AmountInputs ==
    {AmountNone, AmountStr(""), AmountStr("ten")}
        \cup {AmountNum(c) : c \in {-100, 0, 100, 250}}

UpiInputs == {"Not provided", "user@upi"}

\* identifiers are positive; 0 stands for an absent (falsy) field
OrderIdInputs == 0..2
PaymentIds == 1..2

\* HMAC of "order_id|payment_id" under the key secret
Sign(o, p) == <<o, p>>
NoSignature == <<>>
ForgedSignature == <<0, 0>>

PaymentAmounts == {200, 250}
Statuses == {"captured"}

NoRequest ==
    [route |-> "none", amount |-> AmountNone, upi_id |-> "",
     order_id |-> 0, payment_id |-> 0, signature |-> NoSignature]

CreateRequest(amount, upi) ==
    [NoRequest EXCEPT !.route = "create-order", !.amount = amount,
                      !.upi_id = upi]

VerifyRequest(o, p, sig) ==
    [NoRequest EXCEPT !.route = "verify-payment", !.order_id = o,
                      !.payment_id = p, !.signature = sig]

VerifyInputs ==
    {VerifyRequest(o, p, IF valid THEN Sign(o, p) ELSE ForgedSignature) :
        o \in OrderIdInputs \ {0}, p \in PaymentIds, valid \in BOOLEAN}
    \cup {VerifyRequest(0, 1, Sign(1, 1)),
          VerifyRequest(1, 0, Sign(1, 1)),
          VerifyRequest(1, 1, NoSignature)}

\* payment['amount'] / 100: true division of an integer number of paise
Rupees(paise) == [whole |-> paise \div 100, hundredths |-> paise % 100]

NoBody ==
    [success |-> FALSE, error |-> "", message |-> "", order_id |-> 0,
     amount |-> 0, currency |-> "", payment_id |-> 0,
     rupees |-> Rupees(0), status |-> ""]

IdleThread == [pc |-> "idle", req |-> NoRequest, start |-> 0, fetched |-> FALSE]

Response(t, http, body) ==
    [req |-> t.req, start |-> t.start, fetched |-> t.fetched,
     http |-> http, body |-> body]

\* the handler of thread w returns: the response goes out, the thread is free
Return(w, http, body) ==
    /\ log' = Append(log, Response(thread[w], http, body))
    /\ thread' = [thread EXCEPT ![w] = IdleThread]

Started(route) ==
    Cardinality({i \in DOMAIN log : log[i].req.route = route})
        + Cardinality({w \in Threads : thread[w].req.route = route})

\* Python truth value of the JSON amount
Truthy(amount) ==
    CASE amount.t = "none" -> FALSE
      [] amount.t = "str" -> amount.s # ""
      [] amount.t = "num" -> amount.c # 0

\* int(amount) * 100, amount a positive number of rupees given in hundredths
paise_of(amount) == (amount.c \div 100) * 100

-----------------------------------------------------------------------------
(* create_order *)

\* lines 155-160: read the body and validate the amount
create_order_validate(w, amount, upi) ==
    /\ thread[w].pc = "idle"
    /\ Started("create-order") < MaxCreates
    /\ LET t == [IdleThread EXCEPT !.req = CreateRequest(amount, upi),
                                   !.start = Len(log)]
       IN  IF ~Truthy(amount)
           THEN /\ log' = Append(log, Response(t, 400,
                          [NoBody EXCEPT !.error = "Invalid amount"]))
                /\ UNCHANGED thread
           ELSE IF amount.t = "str"
                \* amount <= 0 raises TypeError, caught by except Exception
                THEN /\ log' = Append(log, Response(t, 500,
                               [NoBody EXCEPT !.error = "TypeError"]))
                     /\ UNCHANGED thread
                ELSE IF amount.c <= 0
                     THEN /\ log' = Append(log, Response(t, 400,
                                    [NoBody EXCEPT !.error = "Invalid amount"]))
                          /\ UNCHANGED thread
                     ELSE /\ thread' = [thread EXCEPT ![w] =
                                           [t EXCEPT !.pc = "co_provider"]]
                          /\ UNCHANGED log
    /\ UNCHANGED <<orders, payments, parserVars>>

\* lines 162-183: the provider creates the order and the handler returns it
create_order_provider(w) ==
    /\ thread[w].pc = "co_provider"
    /\ LET order == [id |-> Len(orders) + 1,
                     amount |-> paise_of(thread[w].req.amount),
                     currency |-> "INR",
                     payment_capture |-> 1,
                     upi_id |-> thread[w].req.upi_id]
       IN  /\ orders' = Append(orders, order)
           /\ Return(w, 200, [NoBody EXCEPT !.success = TRUE,
                                            !.order_id = order.id,
                                            !.amount = order.amount,
                                            !.currency = order.currency])
    /\ UNCHANGED <<payments, parserVars>>

\* lines 173, 185-187: razorpay_client.order.create raises
create_order_provider_error(w) ==
    /\ thread[w].pc = "co_provider"
    /\ Return(w, 500, [NoBody EXCEPT !.error = "provider"])
    /\ UNCHANGED <<orders, payments, parserVars>>

-----------------------------------------------------------------------------
(* verify_payment *)

\* razorpay_client.utility.verify_payment_signature(params_dict)
signature_matches(req) == req.signature = Sign(req.order_id, req.payment_id)

\* lines 201-208: read the three fields, reject when one is missing
verify_payment_fields(w, req) ==
    /\ thread[w].pc = "idle"
    /\ Started("verify-payment") < MaxVerifies
    /\ LET t == [IdleThread EXCEPT !.req = req, !.start = Len(log)]
       IN  IF req.order_id = 0 \/ req.payment_id = 0
                \/ req.signature = NoSignature
           THEN /\ log' = Append(log, Response(t, 400,
                          [NoBody EXCEPT !.error = "Missing payment details"]))
                /\ UNCHANGED thread
           ELSE /\ thread' = [thread EXCEPT ![w] =
                                 [t EXCEPT !.pc = "vp_signature"]]
                /\ UNCHANGED log
    /\ UNCHANGED <<orders, payments, parserVars>>

\* lines 217-218, 234-239: the signature check
verify_payment_signature(w) ==
    /\ thread[w].pc = "vp_signature"
    /\ IF signature_matches(thread[w].req)
       THEN /\ thread' = [thread EXCEPT ![w].pc = "vp_fetch"]
            /\ UNCHANGED log
       ELSE Return(w, 400, [NoBody EXCEPT !.success = FALSE,
               !.message = "Payment verification failed - Invalid signature"])
    /\ UNCHANGED <<orders, payments, parserVars>>

\* a variant that reports the amount of the order
verified_amount_of_order(req, payment) ==
    Rupees(IF req.order_id \in DOMAIN orders
           THEN orders[req.order_id].amount ELSE 0)

\* the amount of the success response, line 230
verified_amount(req, payment) == Rupees(payment.amount)

\* lines 221-232: fetch the payment and report it
verify_payment_fetch(w) ==
    /\ thread[w].pc = "vp_fetch"
    /\ payments[thread[w].req.payment_id].exists
    /\ LET req == thread[w].req
           payment == payments[req.payment_id]
       IN  /\ log' = Append(log,
                  Response([thread[w] EXCEPT !.fetched = TRUE], 200,
                      [NoBody EXCEPT !.success = TRUE,
                                     !.message = "Payment verified successfully",
                                     !.payment_id = req.payment_id,
                                     !.rupees = verified_amount(req, payment),
                                     !.status = payment.status]))
           /\ thread' = [thread EXCEPT ![w] = IdleThread]
    /\ UNCHANGED <<orders, payments, parserVars>>

\* lines 221, 241-243: razorpay_client.payment.fetch raises
verify_payment_fetch_error(w) ==
    /\ thread[w].pc = "vp_fetch"
    /\ log' = Append(log,
           Response([thread[w] EXCEPT !.fetched = TRUE], 500,
                    [NoBody EXCEPT !.error = "provider"]))
    /\ thread' = [thread EXCEPT ![w] = IdleThread]
    /\ UNCHANGED <<orders, payments, parserVars>>

-----------------------------------------------------------------------------
(* The provider: a client pays an order in the checkout *)

NoPayment == [exists |-> FALSE, order_id |-> 0, amount |-> 0, status |-> ""]

provider_payment(p, o, a, st) ==
    /\ ~payments[p].exists
    /\ o \in DOMAIN orders
    /\ payments' = [payments EXCEPT ![p] =
           [exists |-> TRUE, order_id |-> o, amount |-> a, status |-> st]]
    /\ UNCHANGED <<orders, thread, log, parserVars>>

-----------------------------------------------------------------------------

Init ==
    /\ text = <<>>
    /\ result = NoneResult
    /\ ppc = "done"
    /\ orders = <<>>
    /\ payments = [p \in PaymentIds |-> NoPayment]
    /\ thread = [w \in Threads |-> IdleThread]
    /\ log = <<>>

Next ==
    \/ \E w \in Threads, amount \in AmountInputs, upi \in UpiInputs :
          create_order_validate(w, amount, upi)
    \/ \E w \in Threads : create_order_provider(w)
    \/ \E w \in Threads : create_order_provider_error(w)
    \/ \E w \in Threads, req \in VerifyInputs : verify_payment_fields(w, req)
    \/ \E w \in Threads : verify_payment_signature(w)
    \/ \E w \in Threads : verify_payment_fetch(w)
    \/ \E w \in Threads : verify_payment_fetch_error(w)
    \/ \E p \in PaymentIds, o \in DOMAIN orders, a \in PaymentAmounts,
          st \in Statuses : provider_payment(p, o, a, st)

Spec == Init /\ [][Next]_vars

-----------------------------------------------------------------------------
(* Vocabulary of the properties: responses in the log *)

IsCreate(e) == e.req.route = "create-order"
IsVerify(e) == e.req.route = "verify-payment"

AllPresent(e) ==
    e.req.order_id # 0 /\ e.req.payment_id # 0 /\ e.req.signature # NoSignature

CreateOk(e) == IsCreate(e) /\ e.http = 200 /\ e.body.success
VerifyOk(e) == IsVerify(e) /\ e.http = 200 /\ e.body.success

SignatureFailed(e) ==
    /\ IsVerify(e) /\ e.http = 400 /\ ~e.body.success
    /\ e.body.message = "Payment verification failed - Invalid signature"

\* order o was returned by a create_order response logged before position j
CreatedBefore(o, j) ==
    \E k \in 1..(j - 1) : CreateOk(log[k]) /\ log[k].body.order_id = o

\* the request answered at position j was received after the response at
\* position i had gone out
After(j, i) == i < j /\ log[j].start >= i

\* the requests answered at positions i < j were in progress together
Overlap(i, j) == i < j /\ log[j].start < i

-----------------------------------------------------------------------------
(* Properties of verify_payment and create_order *)

\* C1: once a verify with a valid signature and a successful fetch has
\* succeeded for an order returned by create_order, every later verify on
\* that order is rejected with AlreadyFinalized; no second success.
VerifyTwiceSecondRejected ==
    \A i, j \in DOMAIN log :
        ( /\ VerifyOk(log[i])
          /\ CreatedBefore(log[i].req.order_id, i)
          /\ After(j, i)
          /\ IsVerify(log[j]) /\ AllPresent(log[j])
          /\ log[j].req.order_id = log[i].req.order_id )
        => /\ ~log[j].body.success
           /\ log[j].body.error = "AlreadyFinalized"

\* C2: of two overlapping verify requests on one created order, one with a
\* valid and one with an invalid signature, exactly one commits a terminal
\* outcome (success, or verification failed): never both, never neither.
Commits(e) == VerifyOk(e) \/ SignatureFailed(e)

ConcurrentVerifyOneTerminal ==
    \A i, j \in DOMAIN log :
        ( /\ Overlap(i, j)
          /\ IsVerify(log[i]) /\ AllPresent(log[i])
          /\ IsVerify(log[j]) /\ AllPresent(log[j])
          /\ log[i].req.order_id = log[j].req.order_id
          /\ CreatedBefore(log[i].req.order_id, i)
          /\ signature_matches(log[i].req) # signature_matches(log[j].req) )
        => Commits(log[i]) # Commits(log[j])

\* C3: the amount of every success response of verify is the amount of the
\* provider's payment record of the request's payment id, in rupees (paise
\* divided by 100).
VerifiedAmountFromProvider ==
    \A i \in DOMAIN log :
        VerifyOk(log[i]) =>
            LET payment == payments[log[i].req.payment_id]
                rupees == log[i].body.rupees
            IN  /\ payment.exists
                /\ rupees.hundredths \in 0..99
                /\ rupees.whole * 100 + rupees.hundredths = payment.amount

\* C3 witness: a success response for a created order whose stored amount
\* differs from the provider's payment record
VerifiedAmountDiffersFromOrder ==
    \E i \in DOMAIN log :
        /\ VerifyOk(log[i])
        /\ CreatedBefore(log[i].req.order_id, i)
        /\ orders[log[i].req.order_id].amount
               # payments[log[i].req.payment_id].amount
        /\ log[i].body.rupees = [whole |-> 2, hundredths |-> 50]

\* C4: for every numeric amount > 0 whose provider call succeeds, the amount
\* sent to the provider and returned is amount * 100 minor units.
CreateOrderMinorUnits ==
    \A i \in DOMAIN log :
        ( /\ CreateOk(log[i])
          /\ log[i].req.amount.t = "num"
          /\ log[i].req.amount.c > 0 )
        => /\ log[i].body.amount = log[i].req.amount.c
           /\ orders[log[i].body.order_id].amount = log[i].req.amount.c

\* C5: an absent, non-numeric or non-positive amount is rejected with
\* "Invalid amount" and HTTP 400, never 500, and no order is created.
InvalidAmountRejected ==
    \A i \in DOMAIN log :
        ( /\ IsCreate(log[i])
          /\ \/ log[i].req.amount.t \in {"none", "str"}
             \/ log[i].req.amount.c <= 0 )
        => /\ log[i].http = 400
           /\ log[i].body.error = "Invalid amount"
           /\ log[i].body.order_id = 0

\* C6: a verify whose order id was never returned by create_order yields
\* UnknownOrder and never a success.
UnknownOrderRejected ==
    \A j \in DOMAIN log :
        ( /\ IsVerify(log[j]) /\ AllPresent(log[j])
          /\ ~CreatedBefore(log[j].req.order_id, j) )
        => /\ ~log[j].body.success
           /\ log[j].body.error = "UnknownOrder"

\* C10: the first verify on a created order, all fields present, signature
\* mismatch: the verification-failed result with HTTP 400, no payment fetch,
\* no success, and the order is Failed from then on (terminal: every later
\* verify on it is rejected with AlreadyFinalized).
SignatureMismatchFails ==
    \A i \in DOMAIN log :
        ( /\ IsVerify(log[i]) /\ AllPresent(log[i])
          /\ ~signature_matches(log[i].req)
          /\ CreatedBefore(log[i].req.order_id, i)
          /\ ~\E k \in 1..(i - 1) :
                 IsVerify(log[k]) /\ log[k].req.order_id = log[i].req.order_id )
        => /\ SignatureFailed(log[i])
           /\ ~log[i].fetched
           /\ \A j \in DOMAIN log :
                 ( /\ After(j, i)
                   /\ IsVerify(log[j]) /\ AllPresent(log[j])
                   /\ log[j].req.order_id = log[i].req.order_id )
                 => /\ ~log[j].body.success
                    /\ log[j].body.error = "AlreadyFinalized"

-----------------------------------------------------------------------------
(* Properties of extract_amount *)

HasDigit(s) == \E i \in DOMAIN s : IsDigit(s[i])

RECURSIVE Pow10(_)
Pow10(n) == IF n = 0 THEN 1 ELSE 10 * Pow10(n - 1)

\* base-10 value of the digits s[i..j]
RECURSIVE Base10(_, _, _)
Base10(s, i, j) ==
    IF i > j THEN 0
    ELSE DigitVal(s[i]) * Pow10(j - i) + Base10(s, i + 1, j)

\* s[i..j] is the first maximal run of digits of s
FirstDigitRun(s, i, j) ==
    /\ i <= j
    /\ \A k \in 1..(i - 1) : ~IsDigit(s[k])
    /\ \A k \in i..j : IsDigit(s[k])
    /\ j = Len(s) \/ ~IsDigit(s[j + 1])

\* C7: for a text with a digit, the result is the base-10 value of its first
\* maximal run of digits, whatever number words surround it.
DigitRunWins ==
    (ppc = "done" /\ HasDigit(text)) =>
        \E i, j \in DOMAIN text :
            /\ FirstDigitRun(text, i, j)
            /\ result = [none |-> FALSE, int |-> Base10(text, i, j)]

Tokens(s) ==
    LET raw == split(lower(s), 1, <<>>)
    IN  [k \in DOMAIN raw |-> strip_punctuation(raw[k])]

\* C7 witness: number words before and after the first digit run
DigitRunAmongWords ==
    /\ ppc = "done"
    /\ \E k \in DOMAIN Tokens(text) :
          /\ 1 < k /\ k < Len(Tokens(text))
          /\ HasDigit(Tokens(text)[k])
          /\ InLexicon(Tokens(text)[k - 1])
          /\ InLexicon(Tokens(text)[k + 1])
    /\ result = [none |-> FALSE, int |-> 5]

\* C8: the result is "no amount" or a strictly positive integer, never 0.
ParseNeverZero ==
    ppc = "done" => (result.none \/ result.int > 0)

Hundred == <<"h","u","n","d","r","e","d">>
Thousand == <<"t","h","o","u","s","a","n","d">>

\* the fold of C9 over the tokens tk[1..n], as <<total, current>>
RECURSIVE Fold(_, _)
Fold(tk, n) ==
    IF n = 0 THEN <<0, 0>>
    ELSE LET prev == Fold(tk, n - 1)
             tok == tk[n]
         IN  CASE tok = Hundred ->
                    <<prev[1], IF prev[2] = 0 THEN 100 ELSE prev[2] * 100>>
               [] tok = Thousand ->
                    <<prev[1] + (IF prev[2] = 0 THEN 1 ELSE prev[2]) * 1000, 0>>
               [] tok \notin {Hundred, Thousand} /\ InLexicon(tok) ->
                    <<prev[1], prev[2] + NumberOf(tok)>>
               [] OTHER -> prev

\* C9: for a digit-free text the result is the left fold over its
\* lowercased, punctuation-stripped tokens: total + current when that is
\* positive, "no amount" otherwise.
WordFold ==
    (ppc = "done" /\ ~HasDigit(text)) =>
        LET tk == Tokens(text)
            f == Fold(tk, Len(tk))
            sum == f[1] + f[2]
            two == <<"t","w","o">>
            five == <<"f","i","v","e">>
            fifty == <<"f","i","f","t","y">>
            twenty == <<"t","w","e","n","t","y">>
            one == <<"o","n","e">>
            hello == <<"h","e","l","l","o">>
        IN  /\ result = IF sum > 0 THEN [none |-> FALSE, int |-> sum]
                                   ELSE [none |-> TRUE, int |-> 0]
            /\ tk = <<two, Hundred, fifty>> => result.int = 250
            /\ tk = <<two, Thousand, five, Hundred>> => result.int = 2500
            /\ tk = <<twenty, one, Hundred>> => result.int = 2100
            /\ tk = <<hello, hello>> => result.none

\* C9 witness: "twenty one hundred", in any case and punctuation
WordFoldTwentyOneHundred ==
    /\ ppc = "done"
    /\ ~HasDigit(text)
    /\ Tokens(text) = << <<"t","w","e","n","t","y">>, <<"o","n","e">>, Hundred >>
    /\ result = [none |-> FALSE, int |-> 2100]

====
